---- MODULE Spec2Model ----
(***************************************************************************)
(* A model of package exif (bindings for libexif): the tag decoder of      *)
(* parseExifData, the Tags store, and the streaming loader protocol of     *)
(* Data.Write / Data.Parse / Data.cleanup, with Read / Open.               *)
(*                                                                         *)
(* Three specifications share the variables:                               *)
(*   Spec      the streaming protocol on one Data (Write, Parse, Read,     *)
(*             the caller dropping the Data, the runtime's finalizer);     *)
(*   SpecWalk  parseExifData walking a sequence of integer/basic entries,  *)
(*             one loop iteration per step;                                *)
(*   SpecFold  parseExifData walking one Rational entry.                   *)
(*                                                                         *)
(* Go's int is 64 bits wide; the payload bytes and rational components     *)
(* drawn here keep every product far below 2^31, so no wrap-around is      *)
(* modelled.                                                               *)
(***************************************************************************)
EXTENDS Integers, Sequences, FiniteSets, TLC

VARIABLES
    exifLoader,     \* Data.exifLoader: Nil or a handle into heap
    Tags,           \* Data.Tags: tag id -> Tag
    heap,           \* the native loaders allocated so far, by handle
    finalizer,      \* whether a runtime finalizer is registered on the Data
    reachable,      \* whether the caller still holds the Data
    proc,           \* "running", or "fatal" once the runtime has aborted
    native,         \* "ok", or the undefined native behaviour that happened
    lastOp,         \* the last call and what it returned
    written,        \* the non-empty chunks passed to Write, in order
    signal,         \* whether the latest returning Write gave ErrFoundExifInData
    values,         \* parseExifData: the entries still on the stack
    byteOrder,      \* parseExifData: local byteOrder
    haveByteOrder,  \* parseExifData: local haveByteOrder
    walked,         \* the entries popped so far
    decoded         \* thisTag of each iteration so far

vars == <<exifLoader, Tags, heap, finalizer, reachable, proc, native, lastOp,
          written, signal, values, byteOrder, haveByteOrder, walked, decoded>>

streamVars == <<exifLoader, heap, finalizer, reachable, proc, native, written, signal>>

walkVars == <<values, byteOrder, haveByteOrder, walked, decoded>>

(***************************************************************************)
(* Bounds of the model.                                                    *)
(***************************************************************************)
\* total number of bytes passed to Write
MaxStream == 4
\* longest chunk passed to one Write
MaxChunk == 2
\* native loaders ever allocated
MaxLoaders == 3
\* size the EXIF header of the modelled streams announces
ExifSize == 2
\* longest entry sequence walked in SpecWalk
MaxEntries == 2
\* largest numerator of a rational component in SpecFold
MaxNum == 2
\* largest denominator of a rational component in SpecFold
MaxDen == 2

(***************************************************************************)
(* Program constants.                                                      *)
(***************************************************************************)
TagOrientation == 274
TagLatitudeRef == 1
TagLatitude == 2
TagAltitudeRef == 5
exifFormatByte == 1
exifFormatString == 2
exifFormatShort == 3
exifFormatLong == 4
exifFormatFloat == 5

Nil == 0

MOTOROLA == "EXIF_BYTE_ORDER_MOTOROLA"

INTEL == "EXIF_BYTE_ORDER_INTEL"

ByteOrders == {MOTOROLA, INTEL}

(***************************************************************************)
(* Errors.  An error value is a pointer (id) with a message; errors.New    *)
(* and fmt.Errorf each allocate a new one, and == compares the pointers.   *)
(***************************************************************************)
NilErr == [id |-> "nil", msg |-> <<>>]

ErrNoExifData == [id |-> "ErrNoExifData", msg |-> <<"No EXIF data found.">>]

ErrFoundExifInData ==
    [id |-> "ErrFoundExifInData", msg |-> <<"Found EXIF header. OK to call Parse.">>]

\* fmt.Errorf(format, args...) for a format without verbs: a new error value
\* whose message is the format followed by the marker of the unused arguments.
Errorf(format, args) ==
    [id  |-> "fmt.Errorf",
     msg |-> IF args = <<>> THEN format ELSE format \o <<"%!(EXTRA string=)">>]

(***************************************************************************)
(* The tag decoder.                                                        *)
(***************************************************************************)
RECURSIVE TrimLeft(_)
TrimLeft(s) ==
    IF s # <<>> /\ Head(s) = " " THEN TrimLeft(Tail(s)) ELSE s

RECURSIVE TrimRight(_)
TrimRight(s) ==
    IF s # <<>> /\ s[Len(s)] = " " THEN TrimRight(SubSeq(s, 1, Len(s) - 1)) ELSE s

\* strings.Trim(s, " ")
Trim(s) == TrimRight(TrimLeft(s))

\* exif_get_short(data, order): 16 bits, unsigned
exif_get_short(data, order) ==
    IF order = MOTOROLA THEN data[1] * 256 + data[2]
                        ELSE data[2] * 256 + data[1]

\* exif_get_long(data, order): 32 bits, unsigned
exif_get_long(data, order) ==
    IF order = MOTOROLA
    THEN ((data[1] * 256 + data[2]) * 256 + data[3]) * 256 + data[4]
    ELSE ((data[4] * 256 + data[3]) * 256 + data[2]) * 256 + data[1]

\* exif_get_rational(data, order): two longs, numerator then denominator
exif_get_rational(data, order) ==
    [numerator   |-> exif_get_long(SubSeq(data, 1, 4), order),
     denominator |-> exif_get_long(SubSeq(data, 5, 8), order)]

\* exif_get_rational_offset(data, order, i): the i-th rational of the payload
exif_get_rational_offset(data, order, i) ==
    exif_get_rational(SubSeq(data, 8 * i + 1, 8 * i + 8), order)

\* one iteration of the fold over components 1 .. numComponents-1
FoldStep(acc, rational) ==
    [numerator   |-> 60 * acc.numerator * rational.denominator
                        + rational.numerator * acc.denominator,
     denominator |-> acc.denominator * rational.denominator * 60]

RECURSIVE FoldRational(_, _, _, _, _)
FoldRational(acc, data, order, i, numComponents) ==
    IF i < numComponents
    THEN FoldRational(FoldStep(acc, exif_get_rational_offset(data, order, i)),
                      data, order, i + 1, numComponents)
    ELSE acc

\* the Tag of one popped value, read under byte order bo, before the setters
DecodeNumeric(value, bo) ==
    IF value.format = exifFormatByte
    THEN [kind |-> "integerTag", intValue |-> value.data[1]]
    ELSE IF value.format = exifFormatShort
    THEN [kind |-> "integerTag", intValue |-> exif_get_short(value.data, bo)]
    ELSE IF value.format = exifFormatLong
    THEN [kind |-> "integerTag", intValue |-> exif_get_long(value.data, bo)]
    ELSE IF value.format = exifFormatFloat
    THEN LET r == FoldRational(exif_get_rational(value.data, bo), value.data, bo,
                               1, value.components)
         IN [kind |-> "floatTag", numerator |-> r.numerator,
             denominator |-> r.denominator]
    ELSE [kind |-> "basicTag"]

\* the same decoding in exif.go: Short and Long only, each read under the
\* byte order of the value's own parent
DecodeNumericOwnOrder(value) ==
    IF value.format = exifFormatShort
    THEN [kind |-> "integerTag", intValue |-> exif_get_short(value.data, value.order)]
    ELSE IF value.format = exifFormatLong
    THEN [kind |-> "integerTag", intValue |-> exif_get_long(value.data, value.order)]
    ELSE [kind |-> "basicTag"]

\* setTag, setTextLabel, setTextValue on the decoded tag
SetBasic(t, value) ==
    [k \in DOMAIN t \cup {"tag", "label", "value"} |->
        IF k = "tag" THEN value.tag
        ELSE IF k = "label" THEN Trim(value.name)
        ELSE IF k = "value" THEN Trim(value.value)
        ELSE t[k]]

\* a store that keeps the Tag an id already has
StoreTagKeepFirst(tags, t) ==
    IF t.tag \in DOMAIN tags THEN tags
    ELSE [k \in DOMAIN tags \cup {t.tag} |-> IF k = t.tag THEN t ELSE tags[k]]

\* d.Tags[thisTag.Tag()] = thisTag
StoreTag(tags, t) ==
    [k \in DOMAIN tags \cup {t.tag} |-> IF k = t.tag THEN t ELSE tags[k]]

\* the byte order an iteration reads under: the first popped entry's, kept
WalkByteOrder(st, value) ==
    IF ~st.haveByteOrder THEN value.order ELSE st.byteOrder

\* one iteration of parseExifData's loop on a popped, non-nil value
parseEntry(st, value) ==
    LET bo      == WalkByteOrder(st, value)
        thisTag == SetBasic(DecodeNumeric(value, bo), value)
    IN [byteOrder |-> bo, haveByteOrder |-> TRUE,
        Tags |-> StoreTag(st.Tags, thisTag), thisTag |-> thisTag]

RECURSIVE parseLoop(_, _)
parseLoop(st, vals) ==
    IF vals = <<>> THEN st
    ELSE parseLoop(parseEntry(st, Head(vals)), Tail(vals))

\* parseExifData: the Tags after the whole walk (it always returns nil)
parseExifData(tags, vals) ==
    parseLoop([byteOrder |-> MOTOROLA, haveByteOrder |-> FALSE, Tags |-> tags,
               thisTag |-> [kind |-> "none"]], vals).Tags

EmptyTags == << >>

NoData == [isNil |-> TRUE, Tags |-> EmptyTags]

(***************************************************************************)
(* The entry source of the walks: raw entries as exif_dump and             *)
(* pop_exif_value hand them over.                                          *)
(***************************************************************************)
Names == {<<" ", "O", " ">>}

IntPayloads == {<<0, 1, 0, 0>>, <<1, 0, 0, 2>>}

IntEntries ==
    [tag : {TagOrientation, TagAltitudeRef},
     format : {exifFormatByte, exifFormatString, exifFormatShort, exifFormatLong},
     components : {1},
     order : ByteOrders,
     data : IntPayloads,
     name : Names,
     value : {<<"v", " ">>}]

RECURSIVE SeqsUpTo(_, _)
SeqsUpTo(S, n) ==
    IF n = 0 THEN {<<>>}
    ELSE LET shorter == SeqsUpTo(S, n - 1)
         IN shorter \cup {Append(s, x) : s \in {t \in shorter : Len(t) = n - 1}, x \in S}

EncodeLong(v, order) ==
    IF order = MOTOROLA THEN <<0, 0, 0, v>> ELSE <<v, 0, 0, 0>>

RECURSIVE EncodeRationals(_, _)
EncodeRationals(comps, order) ==
    IF comps = <<>> THEN <<>>
    ELSE EncodeLong(Head(comps)[1], order) \o EncodeLong(Head(comps)[2], order)
            \o EncodeRationals(Tail(comps), order)

Components == (0 .. MaxNum) \X (1 .. MaxDen)

RationalEntries ==
    {[tag |-> TagLatitude, format |-> exifFormatFloat, components |-> Len(c),
      order |-> o, data |-> EncodeRationals(c, o),
      name |-> <<"L">>, value |-> <<" ", "x">>] :
        c \in SeqsUpTo(Components, 3) \ {<<>>}, o \in ByteOrders}

\* the rational components a Rational entry's payload encodes
ComponentsOf(value) ==
    [i \in 1 .. value.components |->
        exif_get_rational_offset(value.data, value.order, i - 1)]

(***************************************************************************)
(* parseExifData, one loop iteration per step.                             *)
(***************************************************************************)
WalkInit(entrySeqs) ==
    /\ values \in entrySeqs
    /\ byteOrder = MOTOROLA
    /\ haveByteOrder = FALSE
    /\ walked = <<>>
    /\ decoded = <<>>
    /\ Tags = EmptyTags
    /\ exifLoader = Nil
    /\ heap = <<>>
    /\ finalizer = FALSE
    /\ reachable = TRUE
    /\ proc = "running"
    /\ native = "ok"
    /\ written = <<>>
    /\ signal = FALSE
    /\ lastOp = [op |-> "exif_dump", arg |-> <<>>, n |-> 0, err |-> NilErr,
                 outcome |-> "running", data |-> NoData]

\* value := pop_exif_value(values), value != nil
WalkStep ==
    /\ lastOp.op = "exif_dump"
    /\ values # <<>>
    /\ LET st == parseEntry([byteOrder |-> byteOrder, haveByteOrder |-> haveByteOrder,
                             Tags |-> Tags], Head(values))
       IN /\ byteOrder' = st.byteOrder
          /\ haveByteOrder' = st.haveByteOrder
          /\ Tags' = st.Tags
          /\ decoded' = Append(decoded, st.thisTag)
    /\ walked' = Append(walked, Head(values))
    /\ values' = Tail(values)
    /\ UNCHANGED <<streamVars, lastOp>>

\* pop_exif_value returns nil: break, return nil
WalkDone ==
    /\ lastOp.op = "exif_dump"
    /\ values = <<>>
    /\ lastOp' = [lastOp EXCEPT !.op = "parseExifData", !.outcome = "return"]
    /\ UNCHANGED <<streamVars, walkVars, Tags>>

WalkNext == WalkStep \/ WalkDone

SpecWalk == WalkInit(SeqsUpTo(IntEntries, MaxEntries)) /\ [][WalkNext]_vars

SpecFold == WalkInit({<<e>> : e \in RationalEntries}) /\ [][WalkNext]_vars

(***************************************************************************)
(* The native loader (libexif's ExifLoader), by its documented contract:   *)
(* exif_loader_write returns 1 while EXIF data is being read or may still  *)
(* come, and 0 otherwise, that is both when the announced EXIF data is     *)
(* complete and when the bytes cannot be EXIF data (the loader is reset).  *)
(* A stream byte is "soi" (a marker the scan skips), "hdr" (the EXIF       *)
(* header, announcing ExifSize bytes of data) or a data byte "a" / "b".    *)
(***************************************************************************)
StreamBytes == {"soi", "hdr", "a", "b"}

Chunks == SeqsUpTo(StreamBytes, MaxChunk)

exif_loader_new ==
    [state |-> "EL_READ", size |-> 0, buf |-> <<>>, known |-> FALSE,
     released |-> FALSE]

exif_loader_reset(l) ==
    [l EXCEPT !.state = "EL_READ", !.size = 0, !.buf = <<>>, !.known = FALSE]

Min(a, b) == IF a < b THEN a ELSE b

exif_loader_copy(l, chunk) ==
    IF Len(l.buf) >= l.size THEN [l |-> l, res |-> 0]
    ELSE LET k  == Min(Len(chunk), l.size - Len(l.buf))
             nb == l.buf \o SubSeq(chunk, 1, k)
         IN [l |-> [l EXCEPT !.buf = nb],
             res |-> IF Len(nb) >= l.size THEN 0 ELSE 1]

RECURSIVE exif_loader_write(_, _)
exif_loader_write(l, chunk) ==
    IF l.state = "EL_EXIF_FOUND" THEN exif_loader_copy(l, chunk)
    ELSE IF chunk = <<>> THEN [l |-> l, res |-> 1]
    ELSE IF Head(chunk) = "soi" THEN exif_loader_write(l, Tail(chunk))
    ELSE IF Head(chunk) = "hdr"
    THEN exif_loader_write([l EXCEPT !.state = "EL_EXIF_FOUND", !.size = ExifSize,
                                     !.known = TRUE], Tail(chunk))
    ELSE [l |-> exif_loader_reset(l), res |-> 0]

\* exif_loader_get_data: NULL for a NULL loader, an unknown format or no data
exif_loader_get_data(l, hp) ==
    IF l = Nil THEN [isNil |-> TRUE, buf |-> <<>>]
    ELSE IF ~hp[l].known \/ Len(hp[l].buf) = 0 THEN [isNil |-> TRUE, buf |-> <<>>]
    ELSE [isNil |-> FALSE, buf |-> hp[l].buf]

\* the raw entry each data byte of a loaded stream stands for
EntryOf(b) ==
    [tag        |-> IF b \in {"a", "b"} THEN TagOrientation ELSE TagLatitudeRef,
     format     |-> IF b \in {"a", "b"} THEN exifFormatShort ELSE exifFormatString,
     components |-> 1,
     order      |-> MOTOROLA,
     data       |-> IF b = "a" THEN <<0, 1>> ELSE <<0, 6>>,
     name       |-> <<" ", "O", " ">>,
     value      |-> IF b = "soi" THEN <<"N", " ">> ELSE <<"S">>]

\* exif_dump(exifData) followed by the pops: the entries in walk order
exif_dump(data) == [i \in 1 .. Len(data.buf) |-> EntryOf(data.buf[i])]

\* the loader has read the whole EXIF data its header announced
ExifFound(l) == l.known /\ l.state = "EL_EXIF_FOUND" /\ Len(l.buf) >= l.size

(***************************************************************************)
(* Data: Write, Parse, cleanup, Read, Open.                                *)
(***************************************************************************)
\* if d.exifLoader == nil
NeedsLoader(l) == l = Nil

\* runtime.SetFinalizer(d, (*Data).cleanup): the runtime throws "finalizer
\* already set" when one is registered
SetFinalizer(fin) ==
    IF fin THEN [finalizer |-> fin, throw |-> TRUE]
    ELSE [finalizer |-> TRUE, throw |-> FALSE]

\* a length one short of the chunk's
WriteLenShort(p) == Len(p) - 1

\* C.uint(len(p))
WriteLen(p) == Len(p)

\* if res == 1 { return len(p), nil }; return len(p), ErrFoundExifInData
WriteErr(res) == IF res = 1 THEN NilErr ELSE ErrFoundExifInData

\* Data.Write(p) from (d.exifLoader, the native heap, the finalizer flag)
WriteOutcome(l, hp, fin, p) ==
    LET alloc == NeedsLoader(l)
        h     == IF alloc THEN Len(hp) + 1 ELSE l
        hp1   == IF alloc THEN Append(hp, exif_loader_new) ELSE hp
        sf    == IF alloc THEN SetFinalizer(fin)
                 ELSE [finalizer |-> fin, throw |-> FALSE]
    IN IF sf.throw
       THEN [exifLoader |-> h, heap |-> hp1, finalizer |-> fin, n |-> 0,
             err |-> NilErr, outcome |-> "fatal", native |-> "ok"]
       ELSE IF Len(p) = 0
       THEN \* &p[0]: index out of range
            [exifLoader |-> h, heap |-> hp1, finalizer |-> sf.finalizer, n |-> 0,
             err |-> NilErr, outcome |-> "panic", native |-> "ok"]
       ELSE LET w == exif_loader_write(hp1[h], SubSeq(p, 1, WriteLen(p)))
            IN [exifLoader |-> h, heap |-> [hp1 EXCEPT ![h] = w.l],
                finalizer |-> sf.finalizer, n |-> Len(p), err |-> WriteErr(w.res),
                outcome |-> "return",
                native |-> IF hp1[h].released THEN "use_after_free" ELSE "ok"]

\* a cleanup that releases the loader and keeps the pointer
cleanupKeepPointer(l, hp) ==
    IF l # Nil
    THEN [exifLoader |-> l, heap |-> [hp EXCEPT ![l].released = TRUE],
          native |-> IF hp[l].released THEN "double_free" ELSE "ok"]
    ELSE [exifLoader |-> l, heap |-> hp, native |-> "ok"]

\* Data.cleanup
cleanup(l, hp) ==
    IF l # Nil
    THEN [exifLoader |-> Nil, heap |-> [hp EXCEPT ![l].released = TRUE],
          native |-> IF hp[l].released THEN "double_free" ELSE "ok"]
    ELSE [exifLoader |-> l, heap |-> hp, native |-> "ok"]

\* a cleanup deferred only once the data is known not to be nil
ParseCleanupOnSuccess(l, hp, dataIsNil) ==
    IF dataIsNil THEN [exifLoader |-> l, heap |-> hp, native |-> "ok"]
    ELSE cleanup(l, hp)

\* defer d.cleanup() as Parse's first statement: it runs on every return
ParseCleanup(l, hp, dataIsNil) == cleanup(l, hp)

\* return fmt.Errorf(ErrNoExifData.Error(), "")
ParseNoData == Errorf(ErrNoExifData.msg, <<"">>)

\* Data.Parse from (d.exifLoader, the native heap, d.Tags)
ParseOutcome(l, hp, tags) ==
    LET stale == l # Nil /\ hp[l].released
        data  == exif_loader_get_data(l, hp)
        c     == ParseCleanup(l, hp, data.isNil)
    IN [exifLoader |-> c.exifLoader, heap |-> c.heap,
        Tags |-> IF data.isNil THEN tags ELSE parseExifData(tags, exif_dump(data)),
        err |-> IF data.isNil THEN ParseNoData ELSE NilErr,
        native |-> IF stale THEN "use_after_free" ELSE c.native]

\* the files Read is given: without an EXIF segment, or with entries
Files ==
    {[exif |-> FALSE, buf |-> <<>>]}
        \cup {[exif |-> TRUE, buf |-> b] : b \in {<<"a", "b">>}}

\* exif_data_new_from_file
exif_data_new_from_file(file) ==
    IF file.exif THEN [isNil |-> FALSE, buf |-> file.buf]
    ELSE [isNil |-> TRUE, buf |-> <<>>]

\* Data.Open(file) on a Data holding tags
Open(tags, file) ==
    LET exifData == exif_data_new_from_file(file)
    IN IF exifData.isNil THEN [Tags |-> tags, err |-> ErrNoExifData]
       ELSE [Tags |-> parseExifData(tags, exif_dump(exifData)), err |-> NilErr]

\* Read(file): New() and Open
ReadOutcome(file) ==
    LET r == Open(EmptyTags, file)
    IN IF r.err # NilErr THEN [data |-> NoData, err |-> r.err]
       ELSE [data |-> [isNil |-> FALSE, Tags |-> r.Tags], err |-> NilErr]

RECURSIVE Concat(_)
Concat(chunks) ==
    IF chunks = <<>> THEN <<>> ELSE Head(chunks) \o Concat(Tail(chunks))

Sticky(old, new) == IF new # "ok" THEN new ELSE old

Init ==
    /\ exifLoader = Nil
    /\ Tags = EmptyTags
    /\ heap = <<>>
    /\ finalizer = FALSE
    /\ reachable = TRUE
    /\ proc = "running"
    /\ native = "ok"
    /\ lastOp = [op |-> "New", arg |-> <<>>, n |-> 0, err |-> NilErr,
                 outcome |-> "return", data |-> NoData]
    /\ written = <<>>
    /\ signal = FALSE
    /\ values = <<>>
    /\ byteOrder = MOTOROLA
    /\ haveByteOrder = FALSE
    /\ walked = <<>>
    /\ decoded = <<>>

Write(p) ==
    /\ proc = "running"
    /\ reachable
    /\ Len(Concat(written)) + Len(p) <= MaxStream
    /\ NeedsLoader(exifLoader) => Len(heap) < MaxLoaders
    /\ LET r == WriteOutcome(exifLoader, heap, finalizer, p)
       IN /\ exifLoader' = r.exifLoader
          /\ heap' = r.heap
          /\ finalizer' = r.finalizer
          /\ proc' = IF r.outcome = "fatal" THEN "fatal" ELSE proc
          /\ native' = Sticky(native, r.native)
          /\ lastOp' = [op |-> "Write", arg |-> p, n |-> r.n, err |-> r.err,
                        outcome |-> r.outcome, data |-> NoData]
          /\ written' = IF r.outcome = "return" THEN Append(written, p) ELSE written
          /\ signal' = IF r.outcome = "return" THEN r.err = ErrFoundExifInData
                       ELSE signal
    /\ UNCHANGED <<Tags, reachable, walkVars>>

Parse ==
    /\ proc = "running"
    /\ reachable
    /\ LET r == ParseOutcome(exifLoader, heap, Tags)
       IN /\ exifLoader' = r.exifLoader
          /\ heap' = r.heap
          /\ Tags' = r.Tags
          /\ native' = Sticky(native, r.native)
          /\ lastOp' = [op |-> "Parse", arg |-> <<>>, n |-> 0, err |-> r.err,
                        outcome |-> "return", data |-> NoData]
    /\ UNCHANGED <<finalizer, reachable, proc, written, signal, walkVars>>

Read(file) ==
    /\ proc = "running"
    /\ LET r == ReadOutcome(file)
       IN lastOp' = [op |-> "Read", arg |-> file, n |-> 0, err |-> r.err,
                     outcome |-> "return", data |-> r.data]
    /\ UNCHANGED <<streamVars, Tags, walkVars>>

\* the caller lets go of the Data
Drop ==
    /\ proc = "running"
    /\ reachable
    /\ reachable' = FALSE
    /\ UNCHANGED <<exifLoader, Tags, heap, finalizer, proc, native, lastOp,
                   written, signal, walkVars>>

\* the garbage collector runs the registered finalizer, (*Data).cleanup
Finalizer ==
    /\ proc = "running"
    /\ ~reachable
    /\ finalizer
    /\ LET c == cleanup(exifLoader, heap)
       IN /\ exifLoader' = c.exifLoader
          /\ heap' = c.heap
          /\ native' = Sticky(native, c.native)
    /\ finalizer' = FALSE
    /\ lastOp' = [op |-> "finalizer", arg |-> <<>>, n |-> 0, err |-> NilErr,
                  outcome |-> "return", data |-> NoData]
    /\ UNCHANGED <<Tags, reachable, proc, written, signal, walkVars>>

Next ==
    \/ \E p \in Chunks : Write(p)
    \/ Parse
    \/ \E file \in Files : Read(file)
    \/ Drop
    \/ Finalizer

Spec == Init /\ [][Next]_vars

(***************************************************************************)
(* Claims about the streaming protocol.                                    *)
(***************************************************************************)
\* C2: a returning Write gives ErrFoundExifInData exactly when the loader has
\* found EXIF data in the bytes accumulated so far, and nil before that; the
\* signal is never given for bytes in which the loader recognized no EXIF
\* header.
C2_SignalIffHeaderFound ==
    (lastOp.op = "Write" /\ lastOp.outcome = "return") =>
        /\ lastOp.err \in {NilErr, ErrFoundExifInData}
        /\ lastOp.err = ErrFoundExifInData <=> ExifFound(heap[exifLoader])

\* C3: Read of a file without an EXIF segment, and Parse on a Data that never
\* received a Write, both return the error value ErrNoExifData itself, and
\* no store.
C3_NoExifDataValue ==
    /\ (lastOp.op = "Read" /\ ~lastOp.arg.exif) =>
          (lastOp.err = ErrNoExifData /\ lastOp.data.isNil)
    /\ (lastOp.op = "Parse" /\ heap = <<>>) =>
          (lastOp.err = ErrNoExifData /\ Tags = EmptyTags)

\* C4: Write of a zero-length slice returns (a no-op or an error): it does
\* not panic and leaves the loader state and Tags unchanged.
C4_EmptyWriteHarmless ==
    [][Write(<<>>) =>
          (lastOp'.outcome = "return" /\ UNCHANGED <<exifLoader, heap, Tags>>)]_vars

\* C5: a Parse called right after a Parse has returned does not crash, leaves
\* Tags as the first Parse left them and returns an error.
C5_ParseReentrySafe ==
    [][(lastOp.op = "Parse" /\ Parse) =>
          /\ Tags' = Tags
          /\ lastOp'.outcome = "return"
          /\ lastOp'.err # NilErr
          /\ Head(lastOp'.err.msg) = Head(ErrNoExifData.msg)
          /\ native' = "ok"
          /\ proc' = "running"
          /\ exifLoader' = Nil]_vars

\* a failed Parse on a Data whose Tags an earlier Parse filled
C5_Witness ==
    /\ lastOp.op = "Parse"
    /\ lastOp.err # NilErr
    /\ Tags # EmptyTags
    /\ native = "ok"

\* the stream alone, written at once to a new loader, is complete EXIF data
ValidStream(s) ==
    LET w == exif_loader_write(exif_loader_new, s)
    IN w.res = 0 /\ ExifFound(w.l)

\* the Tags of New(), one Write of the whole stream, Parse
SingleWriteTags(s) ==
    LET w == WriteOutcome(Nil, <<>>, FALSE, s)
    IN ParseOutcome(w.exifLoader, w.heap, EmptyTags).Tags

\* C8: when the chunks written so far make up a valid EXIF stream and Parse
\* was called after the header-found signal, Tags is what one Write of the
\* whole stream followed by Parse gives.
C8_ChunkingIndependence ==
    (lastOp.op = "Parse" /\ signal /\ ValidStream(Concat(written))) =>
        Tags = SingleWriteTags(Concat(written))

\* a valid stream fed in several chunks, the data split across two of them,
\* and parsed
C8_Witness ==
    /\ lastOp.op = "Parse"
    /\ lastOp.err = NilErr
    /\ signal
    /\ ValidStream(Concat(written))
    /\ Len(written) >= 2
    /\ written[Len(written)] = <<"b">>
    /\ Tags # EmptyTags

\* C9: no loader is released twice or used after its release; when Parse has
\* returned (and when the finalizer has run) d.exifLoader is nil and every
\* loader Write allocated has been released.
C9_LoaderReleasedOnce ==
    /\ native = "ok"
    /\ lastOp.op \in {"Parse", "finalizer"} =>
          /\ exifLoader = Nil
          /\ \A h \in DOMAIN heap : heap[h].released
    /\ \A h \in DOMAIN heap : heap[h].released => exifLoader # h

\* a Parse that failed with no EXIF data, after a Write allocated a loader
C9_Witness ==
    /\ lastOp.op = "Parse"
    /\ lastOp.err # NilErr
    /\ Len(heap) = 1
    /\ heap[1].released
    /\ written # <<>>

\* C10: a Write after Parse starts a new session like a first Write; Write
\* never registers the finalizer on a Data that still has one registered
\* (the runtime aborts the program on that).
C10_WriteAfterParse ==
    (lastOp.op = "Write" /\ written # <<>>) =>
        (lastOp.outcome # "fatal" /\ proc = "running")

(***************************************************************************)
(* Claims about the walk.                                                  *)
(***************************************************************************)
RECURSIVE BigEndianValue(_)
BigEndianValue(bytes) ==
    IF bytes = <<>> THEN 0
    ELSE BigEndianValue(SubSeq(bytes, 1, Len(bytes) - 1)) * 256 + bytes[Len(bytes)]

Reverse(s) == [i \in 1 .. Len(s) |-> s[Len(s) + 1 - i]]

\* the standard unsigned reading of the first n payload bytes under an order
UnsignedValue(data, n, order) ==
    IF order = MOTOROLA THEN BigEndianValue(SubSeq(data, 1, n))
                        ELSE BigEndianValue(Reverse(SubSeq(data, 1, n)))

\* C1: a Rational entry of three components D, M, S with non-zero
\* denominators decodes to a fraction equal to D + M/60 + S/3600, and one of
\* two components to D + M/60 (compared by cross-multiplication).
C1_DmsFoldExact ==
    \A i \in 1 .. Len(walked) :
        walked[i].format = exifFormatFloat =>
            LET c == ComponentsOf(walked[i])
                t == decoded[i]
            IN /\ walked[i].components = 2 =>
                    t.numerator * (60 * c[1].denominator * c[2].denominator)
                      = t.denominator * (60 * c[1].numerator * c[2].denominator
                                          + c[2].numerator * c[1].denominator)
               /\ walked[i].components = 3 =>
                    t.numerator * (3600 * c[1].denominator * c[2].denominator
                                        * c[3].denominator)
                      = t.denominator
                          * (3600 * c[1].numerator * c[2].denominator * c[3].denominator
                             + 60 * c[2].numerator * c[1].denominator * c[3].denominator
                             + c[3].numerator * c[1].denominator * c[2].denominator)

OwnByteOrderInExifGo ==
    \A e \in IntEntries :
        /\ e.format = exifFormatShort =>
              DecodeNumericOwnOrder(e).intValue = UnsignedValue(e.data, 2, e.order)
        /\ e.format = exifFormatLong =>
              DecodeNumericOwnOrder(e).intValue = UnsignedValue(e.data, 4, e.order)

LastIndexOf(id) ==
    CHOOSE i \in 1 .. Len(walked) :
        /\ walked[i].tag = id
        /\ \A j \in (i + 1) .. Len(walked) : walked[j].tag # id

\* C7: last-write-wins: after the walk (and after each of its iterations)
\* Tags holds, for every tag id walked, the Tag decoded from the last entry
\* carrying that id; no other key was added; a Tag stored under k has id k.
C7_LastWriteWins ==
    /\ DOMAIN Tags = {walked[i].tag : i \in 1 .. Len(walked)}
    /\ \A k \in DOMAIN Tags :
          /\ Tags[k] = decoded[LastIndexOf(k)]
          /\ Tags[k].tag = k
          /\ Tags[k].label = Trim(walked[LastIndexOf(k)].name)

\* a finished walk in which a later entry replaced an earlier, different one
C7_Witness ==
    /\ lastOp.op = "parseExifData"
    /\ \E i, j \in 1 .. Len(walked) :
          /\ i < j
          /\ walked[i].tag = walked[j].tag
          /\ decoded[i] # decoded[j]
          /\ Tags[walked[j].tag] = decoded[j]

====
